---- MODULE Spec2Model ----
(***************************************************************************)
(* Dependency graph construction and duplicate analysis of e18e/reporter.  *)
(*                                                                         *)
(*   DependencyTreeBuilder, DuplicateDetector   src/src/dependency-tree.ts *)
(*   analyzeDuplicateDependencies               src/unnamed/part_004       *)
(*   getPackageInfo, findLatestCompatibleVersion src/unnamed/part_006      *)
(*   analyzeDependencies(tarball)       src/src/analyze-dependencies.ts    *)
(*   LocalDependencyAnalyzer            src/src/analyze-dependencies.ts    *)
(*                                                                         *)
(* Representation of strings.  A package.json path is the sequence of     *)
(* package names of its node_modules chain (<<>> is <rootDir>/package.json,*)
(* <<"b","c">> is <rootDir>/node_modules/b/node_modules/c/package.json).   *)
(* A tree path 'root > a > b' is the sequence <<"root","a","b">>.          *)
(***************************************************************************)
EXTENDS Integers, Sequences, FiniteSets, TLC

VARIABLES
    store,            \* FileSystem: what listPackageFiles / readFile answer
    visitedPackages,  \* DependencyTreeBuilder.visitedPackages
    dependencyNodes,  \* DependencyTreeBuilder.dependencyNodes
    stack,            \* active processDependencies invocations, innermost last
    phase,            \* "idle" | "walk" | "returned" | "reported"
    returned,         \* node lists returned by the completed calls, in order
    log,              \* logger.debug lines of the walk: skipped dependencies
    detIn,            \* detectDuplicates: the dependencyNodes argument
    detOut,           \* detectDuplicates: the returned DuplicateDependency[]
    detPhase,         \* "idle" | "done"
    packageVersions,  \* analyzeDuplicateDependencies: the Map argument
    registry,         \* what registry.npmjs.org answers for each name
    dupIdx,           \* position of the for loop over packageVersions
    duplicateDependencies, \* the list analyzeDuplicateDependencies fills
    dupPhase,         \* "idle" | "run" | "resolved" | "rejected"
    stats,            \* the DependencyStats assembled from the last build
    regIn,            \* arguments of a call into npm-registry
    regOut,           \* what that call returned
    regPhase,         \* "idle" | "latest" | "impact" : which function ran
    files,            \* unpack(tarball).files
    tarIdx,           \* position of the for loop over files
    seenPackages,     \* analyzeDependencies: names already counted
    cjsDependencies,  \* analyzeDependencies: running count
    esmDependencies,  \* analyzeDependencies: running count
    tarPhase,         \* "idle" | "loop" | "resolved" | "rejected"
    tarOut,           \* the stats record or the Error of the tarball analysis
    calls,            \* buildDependencyTree calls in flight on one builder
    disk,             \* the directories below <root>, by real path
    walkStack,        \* active walkNodeModules invocations, innermost last
    followed,         \* real paths walkNodeModules was called on for a symlink
    localInstallSize, \* LocalDependencyAnalyzer: running installSize
    walkPhase,        \* "idle" | "walk" | "resolved" | "rejected"
    walkOut           \* the stats record or the Error of the local analysis

treeVars == <<store, visitedPackages, dependencyNodes, stack, phase, returned, log,
              stats>>
detVars  == <<detIn, detOut, detPhase>>
dupVars  == <<packageVersions, registry, dupIdx, duplicateDependencies, dupPhase>>
regVars  == <<regIn, regOut, regPhase>>
tarVars  == <<files, tarIdx, seenPackages, cjsDependencies, esmDependencies,
              tarPhase, tarOut>>

parVars  == <<calls>>
walkVars == <<disk, walkStack, followed, localInstallSize, walkPhase, walkOut>>

vars == <<treeVars, detVars, dupVars, regVars, tarVars, parVars, walkVars>>

--------------------------------------------------------------------------
(* Bounds *)

MaxDepth == 4      \* deepest level whose dependencies the walk still resolves;
                   \* only a walk inside a dependency cycle gets there
MaxRuns  == 2      \* buildDependencyTree calls made over one store
MaxBroken == 2     \* installed names whose manifest is missing or not JSON
MaxNodes == 3      \* length of a node list handed to detectDuplicates
MaxOcc   == 2      \* occurrences of the analysed package name
MaxFiles == 3      \* files of an unpacked tarball
MaxGroup == 4      \* occurrences in a group handed to generateSuggestions
MaxCalls == 2      \* buildDependencyTree calls in flight on one builder
MaxWalk  == 4      \* walkNodeModules invocations nested in one another

--------------------------------------------------------------------------
(* Values *)

Null     == "null"        \* null / undefined
NoParent == "undefined"   \* the root node has no parent field

Names == {"a", "b", "c"}

D(n, r) == [name |-> n, range |-> r]

Last(s)  == s[Len(s)]
Front(s) == SubSeq(s, 1, Len(s) - 1)

RECURSIVE SeqToSet(_)
SeqToSet(s) == IF s = <<>> THEN {} ELSE {Head(s)} \cup SeqToSet(Tail(s))

(* A manifest file of the store.  ok = FALSE: the content is not JSON.     *)
File(path, ok, name, version, deps, dev, peer) ==
    [path |-> path, ok |-> ok, name |-> name, version |-> version,
     deps |-> deps, dev |-> dev, peer |-> peer]

BadFile(path) == File(path, FALSE, Null, Null, <<>>, <<>>, <<>>)

(* an optional record or list: has = FALSE is undefined *)
Absent        == [has |-> FALSE, entries |-> <<>>]
Present(list) == [has |-> TRUE, entries |-> list]

NoPath    == <<Null>>          \* null where a package.json path is expected
NoPackage == BadFile(NoPath)   \* null where a parsed manifest is expected

--------------------------------------------------------------------------
(* FileSystem and the private helpers of DependencyTreeBuilder *)

rootPackagePath == <<>>

(* file.includes(`/node_modules/${depName}/package.json`) *)
ExactMatch(file, depName) ==
    file.path # <<>> /\ Last(file.path) = depName

(* `@${depName.split('/')[0]}/${depName.split('/')[1]}` *)
ScopedName(depName) ==
    IF depName = "s/x" THEN "@s/x" ELSE "@?/undefined"

ScopedMatch(file, depName) ==
    file.path # <<>> /\ Last(file.path) = ScopedName(depName)

(* Array.prototype.find over the positions that match: the first one,     *)
(* 0 for undefined                                                         *)
FirstIndex(hits) ==
    IF hits = {} THEN 0
    ELSE CHOOSE i \in hits : \A j \in hits : i <= j

findPackageJson(depName) ==
    LET exact  == FirstIndex({i \in 1..Len(store) : ExactMatch(store[i], depName)})
        scoped == FirstIndex({i \in 1..Len(store) : ScopedMatch(store[i], depName)})
    IN  IF exact # 0 THEN store[exact].path
        ELSE IF scoped # 0 THEN store[scoped].path
        ELSE NoPath

(* readFile + JSON.parse inside try/catch: null when absent or not JSON *)
parsePackageJson(packagePath) ==
    LET i == FirstIndex({k \in 1..Len(store) : store[k].path = packagePath})
    IN  IF i = 0 \/ ~store[i].ok THEN NoPackage ELSE store[i]

allDependencies_WithPeers(packageJson) ==
    LET Has(list, n) == \E j \in 1..Len(list) : list[j].name = n
    IN  packageJson.deps
        \o SelectSeq(packageJson.dev, LAMBDA e : ~Has(packageJson.deps, e.name))
        \o SelectSeq(packageJson.peer,
                     LAMBDA e : ~Has(packageJson.deps, e.name)
                                /\ ~Has(packageJson.dev, e.name))

allDependencies_DevFirst(packageJson) ==
    LET Has(list, n) == \E j \in 1..Len(list) : list[j].name = n
    IN  packageJson.dev
        \o SelectSeq(packageJson.deps, LAMBDA e : ~Has(packageJson.dev, e.name))

(* {...packageJson.dependencies, ...packageJson.devDependencies} *)
allDependencies(packageJson) ==
    LET deps == packageJson.deps
        dev  == packageJson.dev
        InDev(n)  == \E j \in 1..Len(dev)  : dev[j].name = n
        InDeps(n) == \E j \in 1..Len(deps) : deps[j].name = n
        Over(e) == IF InDev(e.name)
                   THEN dev[CHOOSE j \in 1..Len(dev) : dev[j].name = e.name]
                   ELSE e
    IN  [i \in 1..Len(deps) |-> Over(deps[i])]
        \o SelectSeq(dev, LAMBDA e : ~InDeps(e.name))

(* `${parentPath} > ${depName}` *)
DepPath(parentPath, depName) == Append(parentPath, depName)

(* `${packagePath}:${depPath}` *)
VisitedKey(packagePath, depPath) == <<packagePath, depPath>>

RootNode(rootPackage) ==
    [name |-> rootPackage.name, version |-> rootPackage.version,
     path |-> <<"root">>, parent |-> NoParent, depth |-> 0,
     packagePath |-> rootPackagePath]

DepNode(packageJson, dep, depPath, depth, packagePath) ==
    [name |-> dep.name, version |-> dep.range, path |-> depPath,
     parent |-> packageJson.name, depth |-> depth,
     packagePath |-> packagePath]

ChildDepth_Same(depth) == depth

(* the third argument of the recursive call: depth + 1 *)
ChildDepth(depth) == depth + 1

(* One invocation of processDependencies(packageJson, parentPath, depth),  *)
(* suspended in its for loop at entry i of allDependencies.                *)
Frame(packageJson, parentPath, depth) ==
    [pkg |-> packageJson, all |-> allDependencies(packageJson),
     parentPath |-> parentPath, depth |-> depth, i |-> 1,
     at |-> "find", found |-> NoPath]

Top == stack[Len(stack)]

SetTop(f) == [stack EXCEPT ![Len(stack)] = f]

(* on to the next entry of allDependencies *)
Continue(f) == [f EXCEPT !.i = f.i + 1, !.at = "find", !.found = NoPath]

Skip_Return(f) == [f EXCEPT !.i = Len(f.all) + 1, !.at = "find", !.found = NoPath]

(* `continue` after a dependency that is not installed, already visited,  *)
(* or not parsable                                                         *)
Skip(f) == Continue(f)

Logged(why, depPath) == [why |-> why, path |-> depPath]

--------------------------------------------------------------------------
(* The stores the builder is run over *)

RootDepLists ==
    { <<D("a", "1.0.0"), D("b", "1.0.0")>>,
      <<D("b", "1.0.0"), D("a", "1.0.0")>>,
      <<D("a", "1.0.0"), D("c", "1.0.0")>> }

RootDevLists ==
    { <<>>, <<D("a", "2.0.0"), D("s/x", "1.0.0")>>,
      <<D("s/x", "1.0.0"), D("a", "2.0.0")>> }

PkgDepLists ==
    { <<>>, <<D("a", "1.0.0")>>, <<D("c", "1.0.0")>>,
      <<D("b", "1.0.0"), D("c", "2.0.0")>> }

Statuses ==
    { st \in [Names -> {"ok", "bad", "missing"}] :
        Cardinality({n \in Names : st[n] # "ok"}) <= MaxBroken }

(* peerDependencies of the manifests: installed packages that the manifest *)
(* may not declare in any other way                                        *)
PeersOf(n) ==
    CASE n = "app" -> <<D("c", "1.0.0")>>
      [] n = "a"   -> <<D("b", "1.0.0")>>
      [] OTHER     -> <<>>

TopFile(n, st, depsOf) ==
    IF st[n] = "missing" THEN <<>>
    ELSE IF st[n] = "bad" THEN <<BadFile(<<n>>)>>
    ELSE <<File(<<n>>, TRUE, n, "1.0.0", depsOf[n], <<>>, PeersOf(n))>>

NestedFile == File(<<"b", "c">>, TRUE, "c", "2.0.0", <<>>, <<>>, <<>>)

ScopedFile == File(<<"@s/x">>, TRUE, "@s/x", "1.0.0", <<>>, <<>>, <<>>)

StoreOf(rootFile, st, depsOf, nested) ==
    rootFile
    \o (IF nested = "first" THEN <<NestedFile>> ELSE <<>>)
    \o TopFile("a", st, depsOf) \o TopFile("b", st, depsOf)
    \o TopFile("c", st, depsOf)
    \o (IF nested = "last" THEN <<NestedFile>> ELSE <<>>)
    \o <<ScopedFile>>

GoodRootStores ==
    { StoreOf(<<File(<<>>, TRUE, "app", "1.0.0", rd, rv, PeersOf("app"))>>,
                st, depsOf, nested) :
        rd \in RootDepLists, rv \in RootDevLists, st \in Statuses,
        depsOf \in [Names -> PkgDepLists], nested \in {"none", "first", "last"} }

NoRootStores ==
    { StoreOf(rf, [n \in Names |-> "ok"], [n \in Names |-> <<>>], "none") :
        rf \in { <<>>, <<BadFile(<<>>)>> } }

Stores == GoodRootStores \cup NoRootStores

--------------------------------------------------------------------------
(* DependencyTreeBuilder *)

(* no stats record has been assembled *)
NoStats == [made |-> FALSE, duplicateCount |-> 0, duplicateDependencies |-> Absent]

TreeIdle ==
    /\ visitedPackages = {}
    /\ dependencyNodes = <<>>
    /\ stack = <<>>
    /\ phase = "idle"
    /\ returned = <<>>
    /\ log = {}
    /\ stats = NoStats

DetIdle ==
    /\ detIn = <<>>
    /\ detOut = <<>>
    /\ detPhase = "idle"

DupIdle ==
    /\ packageVersions = <<>>
    /\ registry = <<>>
    /\ dupIdx = 0
    /\ duplicateDependencies = <<>>
    /\ dupPhase = "idle"

RegIdle ==
    /\ regIn = <<>>
    /\ regOut = <<>>
    /\ regPhase = "idle"

TarIdle ==
    /\ files = <<>>
    /\ tarIdx = 0
    /\ seenPackages = {}
    /\ cjsDependencies = 0
    /\ esmDependencies = 0
    /\ tarPhase = "idle"
    /\ tarOut = <<>>

ParIdle == calls = <<>>

WalkIdle ==
    /\ disk = <<>>
    /\ walkStack = <<>>
    /\ followed = <<>>
    /\ localInstallSize = 0
    /\ walkPhase = "idle"
    /\ walkOut = <<>>

Init ==
    /\ store \in Stores
    /\ TreeIdle
    /\ DetIdle
    /\ DupIdle
    /\ RegIdle
    /\ TarIdle
    /\ ParIdle
    /\ WalkIdle

(* buildDependencyTree up to its call of processDependencies *)
StartBuild ==
    /\ phase \in {"idle", "returned"}
    /\ Len(returned) < MaxRuns
    /\ LET rootPackage == parsePackageJson(rootPackagePath)
       IN  IF rootPackage = NoPackage
           THEN /\ phase' = "returned"
                /\ returned' = Append(returned, <<>>)
                /\ UNCHANGED <<dependencyNodes, stack>>
           ELSE /\ dependencyNodes' = Append(dependencyNodes, RootNode(rootPackage))
                /\ stack' = <<Frame(rootPackage, <<"root">>, 1)>>
                /\ phase' = "walk"
                /\ UNCHANGED returned
    /\ UNCHANGED <<store, visitedPackages, log, stats, detVars, dupVars, regVars, tarVars, parVars, walkVars>>

(* loop body up to `await this.parsePackageJson(packagePath)` *)
ResolveDep ==
    /\ phase = "walk"
    /\ Top.at = "find"
    /\ Top.i <= Len(Top.all)
    /\ Top.depth <= MaxDepth
    /\ LET dep         == Top.all[Top.i]
           depPath     == DepPath(Top.parentPath, dep.name)
           packagePath == findPackageJson(dep.name)
           visitedKey  == VisitedKey(packagePath, depPath)
       IN  IF packagePath = NoPath
           THEN /\ stack' = SetTop(Skip(Top))
                /\ log' = log \cup {Logged("missing", depPath)}
                /\ UNCHANGED visitedPackages
           ELSE IF visitedKey \in visitedPackages
           THEN /\ stack' = SetTop(Skip(Top))
                /\ log' = log \cup {Logged("visited", depPath)}
                /\ UNCHANGED visitedPackages
           ELSE /\ visitedPackages' = visitedPackages \cup {visitedKey}
                /\ stack' = SetTop([Top EXCEPT !.at = "parse", !.found = packagePath])
                /\ UNCHANGED log
    /\ UNCHANGED <<store, dependencyNodes, phase, returned, stats, detVars, dupVars, regVars, tarVars, parVars, walkVars>>

(* loop body from the parse result to the recursive call *)
ParseDep ==
    /\ phase = "walk"
    /\ Top.at = "parse"
    /\ LET dep        == Top.all[Top.i]
           depPath    == DepPath(Top.parentPath, dep.name)
           depPackage == parsePackageJson(Top.found)
       IN  IF depPackage = NoPackage
           THEN /\ stack' = SetTop(Skip(Top))
                /\ log' = log \cup {Logged("unparsable", depPath)}
                /\ UNCHANGED dependencyNodes
           ELSE /\ dependencyNodes' =
                     Append(dependencyNodes,
                            DepNode(Top.pkg, dep, depPath, Top.depth, Top.found))
                /\ stack' = Append(SetTop(Continue(Top)),
                                   Frame(depPackage, depPath, ChildDepth(Top.depth)))
                /\ UNCHANGED log
    /\ UNCHANGED <<store, visitedPackages, phase, returned, stats, detVars, dupVars, regVars, tarVars, parVars, walkVars>>

(* the for loop is exhausted: processDependencies resolves; the outermost  *)
(* one lets buildDependencyTree return this.dependencyNodes                *)
ReturnFrame ==
    /\ phase = "walk"
    /\ Top.at = "find"
    /\ Top.i > Len(Top.all)
    /\ stack' = Front(stack)
    /\ IF Len(stack) = 1
       THEN /\ phase' = "returned"
            /\ returned' = Append(returned, dependencyNodes)
       ELSE UNCHANGED <<phase, returned>>
    /\ UNCHANGED <<store, visitedPackages, dependencyNodes, log, stats, detVars, dupVars, regVars, tarVars, parVars, walkVars>>

(* new DependencyTreeBuilder(fileSystem) over the same store *)
NewBuilder ==
    /\ phase = "returned"
    /\ Len(returned) < MaxRuns
    /\ visitedPackages' = {}
    /\ dependencyNodes' = <<>>
    /\ phase' = "idle"
    /\ UNCHANGED <<store, stack, returned, log, stats, detVars, dupVars, regVars, tarVars, parVars, walkVars>>


--------------------------------------------------------------------------
(* DuplicateDetector *)

(* the distinct elements of s, in order of first occurrence: the key      *)
(* order of a Map / Set filled by iterating s                              *)
RECURSIVE Distinct(_)
Distinct(s) ==
    IF s = <<>> THEN <<>>
    ELSE <<Head(s)>> \o SelectSeq(Distinct(Tail(s)), LAMBDA x : x # Head(s))

Count(s, x) == Cardinality({i \in 1..Len(s) : s[i] = x})

NamesOf(nodes)    == [i \in 1..Len(nodes) |-> nodes[i].name]
VersionsOf(nodes) == [i \in 1..Len(nodes) |-> nodes[i].version]
ParentsOf(nodes)  == [i \in 1..Len(nodes) |-> nodes[i].parent]

(* `Consider standardizing on version ${v} (used by ${k} dependencies)` *)
Standardize(v, k) == [kind |-> "standardize", version |-> v, count |-> k, parents |-> <<>>]

(* `Check if newer versions of consuming packages (${parents.join(', ')})  *)
(* would resolve this duplicate`                                           *)
CheckParents(parents) == [kind |-> "parents", version |-> Null, count |-> 0, parents |-> parents]

(* entries of versionCounts after the stable sort by descending count:    *)
(* its first element                                                       *)
mostCommonVersion(nodes) ==
    LET versions == Distinct(VersionsOf(nodes))
        Cnt(i)   == Count(VersionsOf(nodes), versions[i])
        best     == CHOOSE i \in 1..Len(versions) :
                        \A j \in 1..Len(versions) :
                            Cnt(j) < Cnt(i) \/ (Cnt(j) = Cnt(i) /\ i <= j)
    IN  <<versions[best], Cnt(best)>>

uniqueParents_KeepUndefined(nodes) == Distinct(ParentsOf(nodes))

(* new Set(nodes.map(n => n.parent).filter(Boolean)) *)
uniqueParents(nodes) ==
    Distinct(SelectSeq(ParentsOf(nodes), LAMBDA q : q # NoParent /\ q # ""))

generateSuggestions(nodes) ==
    (IF nodes # <<>> /\ mostCommonVersion(nodes)[2] > 1
     THEN <<Standardize(mostCommonVersion(nodes)[1], mostCommonVersion(nodes)[2])>>
     ELSE <<>>)
    \o (IF Len(uniqueParents(nodes)) > 1
        THEN <<CheckParents(uniqueParents(nodes))>>
        ELSE <<>>)

calculatePotentialSavings(nodes) == Len(nodes) - 1

NoGroup ==
    [name |-> Null, versions |-> <<>>, severity |-> Null,
     potentialSavings |-> 0, suggestions |-> <<>>]

analyzeDuplicate(packageName, nodes) ==
    IF packageName = "root" \/ \E i \in 1..Len(nodes) : nodes[i].name = "root"
    THEN NoGroup
    ELSE [name |-> packageName,
          versions |-> nodes,
          severity |-> IF Cardinality(SeqToSet(VersionsOf(nodes))) = 1
                       THEN "exact" ELSE "conflict",
          potentialSavings |-> calculatePotentialSavings(nodes),
          suggestions |-> generateSuggestions(nodes)]

(* packageGroups.get(name) *)
GroupOf(nodes, packageName) == SelectSeq(nodes, LAMBDA n : n.name = packageName)

detectDuplicates_KeepSingles(nodes) ==
    LET keys     == Distinct(NamesOf(nodes))
        analysed == [i \in 1..Len(keys) |->
                        analyzeDuplicate(keys[i], GroupOf(nodes, keys[i]))]
    IN  SelectSeq(analysed, LAMBDA d : d # NoGroup)

detectDuplicates(nodes) ==
    LET keys     == Distinct(NamesOf(nodes))
        multiple == SelectSeq(keys, LAMBDA k : Len(GroupOf(nodes, k)) > 1)
        analysed == [i \in 1..Len(multiple) |->
                        analyzeDuplicate(multiple[i], GroupOf(nodes, multiple[i]))]
    IN  SelectSeq(analysed, LAMBDA d : d # NoGroup)

(* the node lists handed to the detector *)
DetNames    == {"a", "b", "root"}
DetVersions == {"1.0.0", "2.0.0"}
DetParents  == {"app", "a", NoParent}

DetNode(name, version, parent) ==
    [name |-> name, version |-> version,
     path |-> IF parent = NoParent THEN <<"root">> ELSE <<"root", parent, name>>,
     parent |-> parent,
     depth |-> IF parent = NoParent THEN 0 ELSE 2,
     packagePath |-> IF parent = NoParent THEN rootPackagePath ELSE <<name>>]

DetNodes ==
    {DetNode(n, v, q) : n \in DetNames, v \in DetVersions, q \in DetParents}

NodeLists == UNION {[1..k -> DetNodes] : k \in 0..MaxNodes}

DetInit ==
    /\ store = <<>>
    /\ TreeIdle
    /\ detIn \in NodeLists
    /\ detOut = <<>>
    /\ detPhase = "idle"
    /\ DupIdle
    /\ RegIdle
    /\ TarIdle
    /\ ParIdle
    /\ WalkIdle

Detect ==
    /\ detPhase = "idle"
    /\ detOut' = detectDuplicates(detIn)
    /\ detPhase' = "done"
    /\ UNCHANGED <<detIn, treeVars, dupVars, regVars, tarVars, parVars, walkVars>>

DetNext == Detect

DetSpec == DetInit /\ [][DetNext]_vars

--------------------------------------------------------------------------
(* DuplicateDetector.generateSuggestions called on one group: the          *)
(* occurrences of one package name.  "10.0.0" is a version string that     *)
(* sorts before "2.0.0".                                                   *)

SugVersions == DetVersions \cup {"10.0.0"}

SugNodes == {DetNode("a", v, q) : v \in SugVersions, q \in DetParents}

GroupLists == UNION {[1..k -> SugNodes] : k \in 0..MaxGroup}

SugInit ==
    /\ store = <<>>
    /\ TreeIdle
    /\ detIn \in GroupLists
    /\ detOut = <<>>
    /\ detPhase = "idle"
    /\ DupIdle
    /\ RegIdle
    /\ TarIdle
    /\ ParIdle
    /\ WalkIdle

Suggest ==
    /\ detPhase = "idle"
    /\ detOut' = generateSuggestions(detIn)
    /\ detPhase' = "suggested"
    /\ UNCHANGED <<detIn, treeVars, dupVars, regVars, tarVars, parVars, walkVars>>

SugNext == Suggest

SugSpec == SugInit /\ [][SugNext]_vars

--------------------------------------------------------------------------
(* analyzeDependencies(fileSystem): the tree is built, the detector runs   *)
(* on the returned nodes and the stats record is assembled.  The field     *)
(* duplicateDependencies is present only when duplicates were found.       *)

StatsOf(duplicates) ==
    [made |-> TRUE,
     duplicateCount |-> Len(duplicates),
     duplicateDependencies |->
         IF duplicates # <<>> THEN Present(duplicates) ELSE Absent]

AssembleStats ==
    /\ phase = "returned"
    /\ parsePackageJson(rootPackagePath) # NoPackage
    /\ stats' = StatsOf(detectDuplicates(returned[Len(returned)]))
    /\ phase' = "reported"
    /\ UNCHANGED <<store, visitedPackages, dependencyNodes, stack, returned, log,
                   detVars, dupVars, regVars, tarVars, parVars, walkVars>>

Next ==
    \/ StartBuild
    \/ ResolveDep
    \/ ParseDep
    \/ ReturnFrame
    \/ NewBuilder
    \/ AssembleStats

Spec == Init /\ [][Next]_vars

--------------------------------------------------------------------------
(* Overlapping buildDependencyTree calls on one DependencyTreeBuilder:     *)
(* `const p = builder.buildDependencyTree(); const q = builder             *)
(* .buildDependencyTree();`.  Every call has its own chain of              *)
(* processDependencies invocations; this.visitedPackages and               *)
(* this.dependencyNodes are the builder's.  A call runs from one await to  *)
(* the next without interruption, and any call whose await has been        *)
(* answered may run next.                                                  *)

Callers == 1..MaxCalls

(* stores without a dependency cycle and with every manifest readable *)
AcyclicDeps ==
    { depsOf \in [Names -> PkgDepLists] :
        /\ depsOf["a"] \in {<<>>, <<D("c", "1.0.0")>>, <<D("b", "1.0.0"), D("c", "2.0.0")>>}
        /\ depsOf["b"] \in {<<>>, <<D("c", "1.0.0")>>}
        /\ depsOf["c"] = <<>> }

ParStores ==
    { StoreOf(<<File(<<>>, TRUE, "app", "1.0.0", rd, <<>>, PeersOf("app"))>>,
              [n \in Names |-> "ok"], depsOf, nested) :
        rd \in RootDepLists, depsOf \in AcyclicDeps, nested \in {"none", "last"} }
    \cup NoRootStores

Call(stk, ph, result) == [stack |-> stk, phase |-> ph, result |-> result]

ParInit ==
    /\ store \in ParStores
    /\ TreeIdle
    /\ DetIdle
    /\ DupIdle
    /\ RegIdle
    /\ TarIdle
    /\ calls = [c \in Callers |-> Call(<<>>, "called", <<>>)]
    /\ WalkIdle

TopOf(c) == Last(calls[c].stack)

SetTopOf(c, f) ==
    [calls EXCEPT ![c].stack = [calls[c].stack EXCEPT ![Len(calls[c].stack)] = f]]

(* buildDependencyTree of call c, from the answers of listPackageFiles,    *)
(* getRootDir and the root readFile up to the first await of               *)
(* processDependencies                                                     *)
ParStart(c) ==
    /\ calls[c].phase = "called"
    /\ LET rootPackage == parsePackageJson(rootPackagePath)
       IN  IF rootPackage = NoPackage
           THEN /\ calls' = [calls EXCEPT ![c] = Call(<<>>, "returned", <<>>)]
                /\ UNCHANGED dependencyNodes
           ELSE /\ dependencyNodes' = Append(dependencyNodes, RootNode(rootPackage))
                /\ calls' = [calls EXCEPT ![c] =
                                Call(<<Frame(rootPackage, <<"root">>, 1)>>, "walk", <<>>)]
    /\ UNCHANGED <<store, visitedPackages, stack, phase, returned, log, stats,
                   detVars, dupVars, regVars, tarVars, walkVars>>

(* loop body of call c up to `await this.parsePackageJson(packagePath)` *)
ParResolve(c) ==
    /\ calls[c].phase = "walk"
    /\ TopOf(c).at = "find"
    /\ TopOf(c).i <= Len(TopOf(c).all)
    /\ LET top         == TopOf(c)
           dep         == top.all[top.i]
           depPath     == DepPath(top.parentPath, dep.name)
           packagePath == findPackageJson(dep.name)
           visitedKey  == VisitedKey(packagePath, depPath)
       IN  IF packagePath = NoPath
           THEN /\ calls' = SetTopOf(c, Skip(top))
                /\ log' = log \cup {Logged("missing", depPath)}
                /\ UNCHANGED visitedPackages
           ELSE IF visitedKey \in visitedPackages
           THEN /\ calls' = SetTopOf(c, Skip(top))
                /\ log' = log \cup {Logged("visited", depPath)}
                /\ UNCHANGED visitedPackages
           ELSE /\ visitedPackages' = visitedPackages \cup {visitedKey}
                /\ calls' = SetTopOf(c, [top EXCEPT !.at = "parse", !.found = packagePath])
                /\ UNCHANGED log
    /\ UNCHANGED <<store, dependencyNodes, stack, phase, returned, stats,
                   detVars, dupVars, regVars, tarVars, walkVars>>

(* loop body of call c from the parse result to the recursive call *)
ParParse(c) ==
    /\ calls[c].phase = "walk"
    /\ TopOf(c).at = "parse"
    /\ LET top        == TopOf(c)
           dep        == top.all[top.i]
           depPath    == DepPath(top.parentPath, dep.name)
           depPackage == parsePackageJson(top.found)
       IN  IF depPackage = NoPackage
           THEN /\ calls' = SetTopOf(c, Skip(top))
                /\ log' = log \cup {Logged("unparsable", depPath)}
                /\ UNCHANGED dependencyNodes
           ELSE /\ dependencyNodes' =
                     Append(dependencyNodes,
                            DepNode(top.pkg, dep, depPath, top.depth, top.found))
                /\ calls' = [SetTopOf(c, Continue(top)) EXCEPT ![c].stack =
                                Append(@, Frame(depPackage, depPath, ChildDepth(top.depth)))]
                /\ UNCHANGED log
    /\ UNCHANGED <<store, visitedPackages, stack, phase, returned, stats,
                   detVars, dupVars, regVars, tarVars, walkVars>>

(* a for loop of call c is exhausted; the outermost one lets the call      *)
(* `return this.dependencyNodes`                                           *)
ParReturn(c) ==
    /\ calls[c].phase = "walk"
    /\ TopOf(c).at = "find"
    /\ TopOf(c).i > Len(TopOf(c).all)
    /\ calls' = [calls EXCEPT ![c] =
                    IF Len(calls[c].stack) = 1
                    THEN Call(<<>>, "returned", dependencyNodes)
                    ELSE Call(Front(calls[c].stack), "walk", <<>>)]
    /\ UNCHANGED <<treeVars, detVars, dupVars, regVars, tarVars, walkVars>>

ParNext ==
    \/ \E c \in Callers : ParStart(c)
    \/ \E c \in Callers : ParResolve(c)
    \/ \E c \in Callers : ParParse(c)
    \/ \E c \in Callers : ParReturn(c)

ParSpec == ParInit /\ [][ParNext]_vars

--------------------------------------------------------------------------
(* semver, as used by the suggestion engine.  A SemVer is the triple      *)
(* <<major, minor, patch>>; version and range strings are parsed by table. *)

NoVersion == <<>>      \* semver.parse(...) === null

(* semver.parse(v): a leading 'v' is accepted, a dist-tag is not a version *)
Parse(v) ==
    CASE v = "1.0.0"  -> <<1, 0, 0>>
      [] v = "1.2.0"  -> <<1, 2, 0>>
      [] v = "2.0.0"  -> <<2, 0, 0>>
      [] v = "v2.0.0" -> <<2, 0, 0>>
      [] OTHER        -> NoVersion

(* SemVer.version: the canonical string *)
Format(sv) ==
    CASE sv = <<1, 0, 0>> -> "1.0.0"
      [] sv = <<1, 2, 0>> -> "1.2.0"
      [] sv = <<2, 0, 0>> -> "2.0.0"
      [] OTHER            -> Null

(* SemVer.compare(a, b) > 0 *)
Newer(a, b) ==
    \/ a[1] > b[1]
    \/ a[1] = b[1] /\ a[2] > b[2]
    \/ a[1] = b[1] /\ a[2] = b[2] /\ a[3] > b[3]

(* new Range(range).test(sv); a string that is no range tests false *)
RangeTest(range, sv) ==
    CASE range = "1.0.0"  -> sv = <<1, 0, 0>>
      [] range = "^1.0.0" -> sv[1] = 1
      [] range = "^2.0.0" -> sv[1] = 2
      [] OTHER            -> FALSE

(* semver.satisfies(version, range): false when version is no version *)
Satisfies(version, range) ==
    Parse(version) # NoVersion /\ RangeTest(range, Parse(version))

--------------------------------------------------------------------------
(* NpmPackageInfo and the registry *)

(* one entry of packageInfo.versions *)
Published(key, peer, deps) == [key |-> key, peer |-> peer, deps |-> deps]

NoEntry == Published(Null, Absent, Absent)

(* packageInfo.versions[key] *)
VersionEntry(packageInfo, key) ==
    LET hits == {i \in 1..Len(packageInfo.versions) : packageInfo.versions[i].key = key}
    IN  IF hits = {} THEN NoEntry ELSE packageInfo.versions[CHOOSE i \in hits : TRUE]

(* record[dep] of an optional record, Null when undefined *)
RangeFor(rec, dep) ==
    LET hits == {i \in 1..Len(rec.entries) : rec.entries[i].name = dep}
    IN  IF hits = {} THEN Null ELSE rec.entries[CHOOSE i \in hits : TRUE].range

(* a registry answer: ok = response.ok, neterr = fetch rejected, pending = *)
(* the fetch promise is never settled                                      *)
Answer(kind, hasVersions, versions) ==
    [kind |-> kind, hasVersions |-> hasVersions, versions |-> versions]

NoInfo == Answer("null", FALSE, <<>>)

(* getPackageInfo: null on a non-OK response or a network error, else the *)
(* response body                                                           *)
getPackageInfo(packageName) ==
    IF registry[packageName].kind = "ok" THEN registry[packageName] ELSE NoInfo

(* `await fetch(...)` comes back; nothing else ends the wait *)
FetchSettles(packageName) == registry[packageName].kind # "pending"

--------------------------------------------------------------------------
(* npm-registry: findLatestCompatibleVersion, calculateDeduplicationImpact *)

Found(version, hasBreakingChanges) ==
    [kind |-> "found", version |-> version, hasBreakingChanges |-> hasBreakingChanges]

NoneFound == [kind |-> "null", version |-> Null, hasBreakingChanges |-> FALSE]
Threw     == [kind |-> "threw", version |-> Null, hasBreakingChanges |-> FALSE]

(* availableVersions: the parsable keys as SemVers, newest first *)
RECURSIVE SortDesc(_)
SortDesc(set) ==
    IF set = {} THEN <<>>
    ELSE LET top == CHOOSE x \in set : \A y \in set : ~Newer(y, x)
         IN  <<top>> \o SortDesc(set \ {top})

availableVersions(packageInfo) ==
    SortDesc({Parse(packageInfo.versions[i].key) : i \in 1..Len(packageInfo.versions)}
             \ {NoVersion})

(* Object.entries(peerDependencies).every(...) against versionInfo *)
satisfiesPeerDeps(peerDependencies, versionInfo) ==
    \A i \in 1..Len(peerDependencies.entries) :
        LET peerRange == RangeFor(versionInfo.peer, peerDependencies.entries[i].name)
        IN  peerRange = Null \/ Satisfies(peerDependencies.entries[i].range, peerRange)

(* the for loop over availableVersions, from position i on *)
RECURSIVE ScanVersions(_, _, _, _, _)
ScanVersions(available, i, currentSemver, packageInfo, peerDependencies) ==
    IF i > Len(available) THEN NoneFound
    ELSE LET version     == available[i]
             versionInfo == VersionEntry(packageInfo, Format(version))
         IN  IF version[1] = currentSemver[1]
             THEN Found(Format(version), FALSE)
             ELSE IF peerDependencies.has /\ versionInfo = NoEntry
             THEN Threw
             ELSE IF /\ peerDependencies.has
                     /\ versionInfo.peer.has
                     /\ satisfiesPeerDeps(peerDependencies, versionInfo)
             THEN Found(Format(version), TRUE)
             ELSE ScanVersions(available, i + 1, currentSemver, packageInfo,
                               peerDependencies)

findLatestCompatibleVersion(currentVersion, packageInfo, peerDependencies) ==
    IF Parse(currentVersion) = NoVersion THEN NoneFound
    ELSE IF ~packageInfo.hasVersions THEN Threw
    ELSE ScanVersions(availableVersions(packageInfo), 1, Parse(currentVersion),
                      packageInfo, peerDependencies)

KeysOf(rec) == [i \in 1..Len(rec.entries) |-> rec.entries[i].name]

CountedNames_DepsOnly(packageInfo, version) ==
    KeysOf(VersionEntry(packageInfo, version).deps)

(* the dependency and peer-dependency names counted for one version *)
CountedNames(packageInfo, version) ==
    LET versionInfo == VersionEntry(packageInfo, version)
    IN  KeysOf(versionInfo.deps) \o KeysOf(versionInfo.peer)

RECURSIVE Flatten(_)
Flatten(ss) == IF ss = <<>> THEN <<>> ELSE Head(ss) \o Flatten(Tail(ss))

calculateDeduplicationImpact(versions, packageInfo) ==
    LET counted == Flatten([i \in 1..Len(versions) |->
                               CountedNames(packageInfo, versions[i])])
    IN  [sizeReduction |-> 0,
         dependencyCountReduction |-> Len(counted) - Cardinality(SeqToSet(counted))]

--------------------------------------------------------------------------
(* analyzeDuplicateDependencies *)

Occurrence(version, location) == [version |-> version, location |-> location]

Entry(name, versions) == [name |-> name, versions |-> versions]

(* location.includes('node_modules') *)
IncludesNodeModules(location) ==
    CASE location = "node_modules/a"                -> TRUE
      [] location = "node_modules/b/node_modules/a" -> TRUE
      [] location = "node_modules/b"                -> TRUE
      [] location = "node_modules/a/node_modules/b" -> TRUE
      [] location = "packages/a"                    -> FALSE

Strategy(type, confidence, command) ==
    [type |-> type, confidence |-> confidence, command |-> command]

NoFix == [has |-> FALSE, version |-> Null, breakingChanges |-> FALSE,
          peerDependencies |-> Absent]

(* packageVersions.get(dep)?.size, 0 when the name is not a key *)
SizeOf(pv, dep) ==
    LET hits == {i \in 1..Len(pv) : pv[i].name = dep}
    IN  IF hits = {} THEN 0 ELSE Len(pv[CHOOSE i \in hits : TRUE].versions)

(* versionInfo.reduce(...): the first occurrence of the highest version *)
RECURSIVE latestVersion(_, _, _)
latestVersion(versionInfo, i, latest) ==
    IF i > Len(versionInfo) THEN latest
    ELSE latestVersion(versionInfo, i + 1,
            IF Newer(Parse(versionInfo[i].version), Parse(latest.version))
            THEN versionInfo[i] ELSE latest)

(* the names added to relatedDeps, in order of insertion *)
relatedDeps(pv, versionInfo, packageInfo) ==
    LET deps == Flatten([i \in 1..Len(versionInfo) |->
                    KeysOf(VersionEntry(packageInfo, versionInfo[i].version).deps)])
    IN  Distinct(SelectSeq(deps, LAMBDA dep : SizeOf(pv, dep) > 1))

(* semver.gt throws on a string that is no version *)
ReduceThrows(versionInfo) ==
    \E i \in 1..Len(versionInfo) : Parse(versionInfo[i].version) = NoVersion

(* the body of `if (packageInfo)`: the DuplicateDependency that is pushed *)
Duplicate(pv, name, versionInfo, packageInfo) ==
    LET latest == latestVersion(versionInfo, 1, versionInfo[1])
        latestCompatible ==
            findLatestCompatibleVersion(
                latest.version, packageInfo,
                VersionEntry(packageInfo, latest.version).peer)
        related == relatedDeps(pv, versionInfo, packageInfo)
    IN  [name |-> name,
         versions  |-> [i \in 1..Len(versionInfo) |-> versionInfo[i].version],
         locations |-> [i \in 1..Len(versionInfo) |-> versionInfo[i].location],
         suggestedFix |->
            IF latestCompatible.kind = "found"
            THEN [has |-> TRUE, version |-> latestCompatible.version,
                  breakingChanges |-> latestCompatible.hasBreakingChanges,
                  peerDependencies |->
                      VersionEntry(packageInfo, latestCompatible.version).peer]
            ELSE NoFix,
         deduplicationStrategies |->
            (IF latestCompatible.kind = "found"
             THEN <<Strategy("upgrade",
                             IF latestCompatible.hasBreakingChanges
                             THEN "medium" ELSE "high",
                             <<"npm install", name, latestCompatible.version>>)>>
             ELSE <<>>)
            \o <<Strategy("dedupe", "high", <<"npm dedupe">>)>>
            \o (IF \E i \in 1..Len(versionInfo) :
                       IncludesNodeModules(versionInfo[i].location)
                THEN <<Strategy("hoist", "medium", <<>>)>>
                ELSE <<>>),
         deduplicationImpact |->
            calculateDeduplicationImpact(
                [i \in 1..Len(versionInfo) |-> versionInfo[i].version], packageInfo),
         relatedDuplicates |->
            IF related # <<>> THEN Present(related) ELSE Absent]

(* a TypeError escapes the loop body *)
DuplicateThrows(versionInfo, packageInfo) ==
    \/ ReduceThrows(versionInfo)
    \/ ~packageInfo.hasVersions
    \/ LET latest == latestVersion(versionInfo, 1, versionInfo[1])
       IN  findLatestCompatibleVersion(
               latest.version, packageInfo,
               VersionEntry(packageInfo, latest.version).peer).kind = "threw"

(* the inputs of analyzeDuplicateDependencies *)
OccVersions == {"1.0.0", "1.2.0", "2.0.0", "next"}
Locations   == {"node_modules/a", "node_modules/b/node_modules/a", "packages/a"}

Occurrences == {Occurrence(v, l) : v \in OccVersions, l \in Locations}

OccLists == UNION {[1..k -> Occurrences] : k \in 1..MaxOcc}

OtherEntries ==
    { <<>>,
      <<Entry("b", <<Occurrence("1.0.0", "node_modules/b")>>)>>,
      <<Entry("b", <<Occurrence("1.0.0", "node_modules/b"),
                     Occurrence("2.0.0", "node_modules/a/node_modules/b")>>)>> }

KeyLists ==
    { <<"1.0.0", "1.2.0", "2.0.0">>, <<"2.0.0", "1.0.0">>, <<"2.0.0">>,
      <<"1.0.0", "v2.0.0">>, <<"1.0.0", "1.2.0">> }

PeerStyles == {"none", "empty", "caret", "range", "two"}
DepStyles  == {"none", "b", "self"}

PeerOf(style, key) ==
    CASE style = "none"  -> Absent
      [] style = "empty" -> Present(<<>>)
      [] style = "caret" -> IF Parse(key)[1] = 1
                            THEN Present(<<D("p", "1.0.0")>>)
                            ELSE Present(<<D("p", "^1.0.0")>>)
      [] style = "range" -> Present(<<D("p", "^1.0.0")>>)
      [] style = "two"   -> Present(<<D("p", "^2.0.0"), D("q", "^1.0.0")>>)

DepsOf(style, key) ==
    CASE style = "none" -> Absent
      [] style = "b"    -> Present(<<D("b", "^1.0.0")>>)
      [] style = "self" -> IF key = "1.0.0"
                           THEN Present(<<D("a", "^1.0.0"), D("b", "^1.0.0")>>)
                           ELSE Present(<<D("b", "^1.0.0")>>)

AnswersA ==
    { Answer("not-ok", FALSE, <<>>), Answer("neterr", FALSE, <<>>),
      Answer("pending", FALSE, <<>>), Answer("ok", FALSE, <<>>) }
    \cup { Answer("ok", TRUE,
                  [i \in 1..Len(keys) |->
                      Published(keys[i], PeerOf(ps, keys[i]), DepsOf(ds, keys[i]))]) :
             keys \in KeyLists, ps \in PeerStyles, ds \in DepStyles }

AnswerB ==
    Answer("ok", TRUE, <<Published("1.0.0", Absent, Absent),
                         Published("2.0.0", Absent, Absent)>>)

DupInit ==
    /\ store = <<>>
    /\ TreeIdle
    /\ DetIdle
    /\ \E occs \in OccLists, other \in OtherEntries :
          packageVersions = <<Entry("a", occs)>> \o other
    /\ \E answer \in AnswersA : registry = [a |-> answer, b |-> AnswerB]
    /\ dupIdx = 1
    /\ duplicateDependencies = <<>>
    /\ dupPhase = "run"
    /\ RegIdle
    /\ TarIdle
    /\ ParIdle
    /\ WalkIdle

InLoop == dupPhase = "run" /\ dupIdx <= Len(packageVersions)

(* versions.size <= 1: nothing to do for this name *)
SkipEntry ==
    /\ InLoop
    /\ Len(packageVersions[dupIdx].versions) <= 1
    /\ dupIdx' = dupIdx + 1
    /\ UNCHANGED <<packageVersions, registry, duplicateDependencies, dupPhase,
                   treeVars, detVars, regVars, tarVars, parVars, walkVars>>

(* getPackageInfo resolved to null: the `if (packageInfo)` body is skipped *)
FetchFailed ==
    /\ InLoop
    /\ Len(packageVersions[dupIdx].versions) > 1
    /\ FetchSettles(packageVersions[dupIdx].name)
    /\ getPackageInfo(packageVersions[dupIdx].name) = NoInfo
    /\ dupIdx' = dupIdx + 1
    /\ UNCHANGED <<packageVersions, registry, duplicateDependencies, dupPhase,
                   treeVars, detVars, regVars, tarVars, parVars, walkVars>>

(* getPackageInfo resolved to the registry data *)
EnrichEntry ==
    /\ InLoop
    /\ Len(packageVersions[dupIdx].versions) > 1
    /\ FetchSettles(packageVersions[dupIdx].name)
    /\ LET name        == packageVersions[dupIdx].name
           versionInfo == packageVersions[dupIdx].versions
           packageInfo == getPackageInfo(name)
       IN  /\ packageInfo # NoInfo
           /\ IF DuplicateThrows(versionInfo, packageInfo)
              THEN /\ dupPhase' = "rejected"
                   /\ UNCHANGED <<dupIdx, duplicateDependencies>>
              ELSE /\ duplicateDependencies' =
                        Append(duplicateDependencies,
                               Duplicate(packageVersions, name, versionInfo, packageInfo))
                   /\ dupIdx' = dupIdx + 1
                   /\ UNCHANGED dupPhase
    /\ UNCHANGED <<packageVersions, registry, treeVars, detVars, regVars, tarVars, parVars, walkVars>>

(* the loop is exhausted: return duplicateDependencies *)
DupReturn ==
    /\ dupPhase = "run"
    /\ dupIdx > Len(packageVersions)
    /\ dupPhase' = "resolved"
    /\ UNCHANGED <<packageVersions, registry, dupIdx, duplicateDependencies,
                   treeVars, detVars, regVars, tarVars, parVars, walkVars>>

DupNext ==
    \/ SkipEntry
    \/ FetchFailed
    \/ EnrichEntry
    \/ DupReturn

DupSpec == DupInit /\ [][DupNext]_vars

--------------------------------------------------------------------------
(* npm-registry called directly: findLatestCompatibleVersion and           *)
(* calculateDeduplicationImpact are exported functions                     *)

CurrentVersions == {"1.0.0", "2.0.0", "next"}

PackageInfos == {answer \in AnswersA : answer.kind = "ok"}

PeerArgs ==
    { Absent, Present(<<>>), Present(<<D("p", "1.0.0")>>),
      Present(<<D("p", "^1.0.0")>>) }

VersionLists == UNION {[1..k -> OccVersions] : k \in 0..MaxOcc}

RegArgs(currentVersion, packageInfo, peerDependencies, versions) ==
    [currentVersion |-> currentVersion, packageInfo |-> packageInfo,
     peerDependencies |-> peerDependencies, versions |-> versions]

(* packageInfo.versions[version] on a body without a versions map *)
ImpactThrows(versions, packageInfo) ==
    versions # <<>> /\ ~packageInfo.hasVersions

ImpactThrew == [threw |-> TRUE, sizeReduction |-> 0, dependencyCountReduction |-> 0]

RegInit ==
    /\ store = <<>>
    /\ TreeIdle
    /\ DetIdle
    /\ DupIdle
    /\ TarIdle
    /\ \E cv \in CurrentVersions, pi \in PackageInfos, pd \in PeerArgs,
          vs \in VersionLists : regIn = RegArgs(cv, pi, pd, vs)
    /\ regOut = <<>>
    /\ regPhase = "idle"
    /\ ParIdle
    /\ WalkIdle

CallFindLatest ==
    /\ regPhase = "idle"
    /\ regOut' = findLatestCompatibleVersion(regIn.currentVersion, regIn.packageInfo,
                                              regIn.peerDependencies)
    /\ regPhase' = "latest"
    /\ UNCHANGED <<regIn, treeVars, detVars, dupVars, tarVars, parVars, walkVars>>

CallImpact ==
    /\ regPhase = "idle"
    /\ regOut' = IF ImpactThrows(regIn.versions, regIn.packageInfo)
                 THEN ImpactThrew
                 ELSE [threw |-> FALSE] @@
                      calculateDeduplicationImpact(regIn.versions, regIn.packageInfo)
    /\ regPhase' = "impact"
    /\ UNCHANGED <<regIn, treeVars, detVars, dupVars, tarVars, parVars, walkVars>>

RegNext ==
    \/ CallFindLatest
    \/ CallImpact

RegSpec == RegInit /\ [][RegNext]_vars

--------------------------------------------------------------------------
(* analyzeDependencies(tarball) of analyze-dependencies.ts and of          *)
(* analyze-dependencies-browser.ts.  A file of the unpacked tarball is its *)
(* name, whether its data is JSON, and what the parsed manifest says.      *)

rootDir == "package"

(* rootDir + '/package.json' *)
RootManifestName == "package/package.json"

TarFile(name, ok, pkgName, moduleType, deps, dev, byteLength) ==
    [name |-> name, ok |-> ok, pkgName |-> pkgName, moduleType |-> moduleType,
     deps |-> deps, dev |-> dev, byteLength |-> byteLength]

IsRootManifest_AnyManifest(name) ==
    name \in {"package/package.json", "package/lib/package.json",
              "package/node_modules/a/package.json",
              "package/node_modules/b/package.json",
              "package/node_modules/b/node_modules/a/package.json"}

(* f.name === rootDir + '/package.json' *)
IsRootManifest(name) == name = RootManifestName

(* file.name.endsWith('/package.json') *)
EndsWithPackageJson(name) ==
    name \in {"package/package.json", "package/lib/package.json",
              "package/node_modules/a/package.json",
              "package/node_modules/b/package.json",
              "package/node_modules/b/node_modules/a/package.json"}

(* file.name.includes('node_modules/') *)
UnderNodeModules(name) ==
    name \in {"package/node_modules/a/package.json",
              "package/node_modules/b/package.json",
              "package/node_modules/b/node_modules/a/package.json",
              "package/node_modules/a/index.js"}

TarFiles ==
    { TarFile(RootManifestName, TRUE, "app", "esm", 0, 0, 2),
      TarFile(RootManifestName, TRUE, "app", "cjs", 2, 1, 3),
      TarFile(RootManifestName, FALSE, Null, Null, 0, 0, 1),
      TarFile("package/README.md", FALSE, Null, Null, 0, 0, 1),
      TarFile("package/lib/package.json", FALSE, Null, Null, 0, 0, 1),
      TarFile("package/node_modules/a/index.js", FALSE, Null, Null, 0, 0, 4),
      TarFile("package/node_modules/a/package.json", TRUE, "a", "cjs", 0, 0, 2),
      TarFile("package/node_modules/a/package.json", TRUE, "a", "dual", 0, 0, 2),
      TarFile("package/node_modules/a/package.json", FALSE, Null, Null, 0, 0, 1),
      TarFile("package/node_modules/b/package.json", TRUE, "b", "esm", 1, 0, 2),
      TarFile("package/node_modules/b/package.json", TRUE, "b", "unknown", 0, 0, 2),
      TarFile("package/node_modules/b/package.json", FALSE, Null, Null, 0, 0, 1),
      TarFile("package/node_modules/b/node_modules/a/package.json",
              TRUE, "a", "esm", 0, 0, 2) }

FileLists == UNION {[1..k -> TarFiles] : k \in 0..MaxFiles}

TarError(message) == [kind |-> "error", message |-> message]

NoPackageJson == TarError("No package.json found in the tarball.")
SyntaxError   == TarError("SyntaxError")

(* files.find((f) => f.name === rootDir + '/package.json'), 0 if none *)
RootIndex == FirstIndex({i \in 1..Len(files) : IsRootManifest(files[i].name)})

RECURSIVE installSize(_)
installSize(fs) ==
    IF fs = <<>> THEN 0 ELSE Head(fs).byteLength + installSize(Tail(fs))

TarStats(pkg) ==
    [kind |-> "stats",
     totalDependencies |-> pkg.deps + pkg.dev,
     directDependencies |-> pkg.deps,
     devDependencies |-> pkg.dev,
     cjsDependencies |-> cjsDependencies,
     esmDependencies |-> esmDependencies,
     installSize |-> installSize(files)]

TarInit ==
    /\ store = <<>>
    /\ TreeIdle
    /\ DetIdle
    /\ DupIdle
    /\ RegIdle
    /\ files \in FileLists
    /\ tarIdx = 0
    /\ seenPackages = {}
    /\ cjsDependencies = 0
    /\ esmDependencies = 0
    /\ tarPhase = "idle"
    /\ tarOut = <<>>
    /\ ParIdle
    /\ WalkIdle

CountsAsCjs_AlsoUnknown(type) == type \in {"cjs", "dual", "unknown"}

(* if (type === 'cjs') cjsDependencies++; if (type === 'dual') { both } *)
CountsAsCjs(type) == type \in {"cjs", "dual"}

(* if (type === 'esm') esmDependencies++; if (type === 'dual') { both } *)
CountsAsEsm(type) == type \in {"esm", "dual"}

(* from unpack to the start of the loop over files *)
TarStart ==
    /\ tarPhase = "idle"
    /\ IF RootIndex = 0
       THEN tarPhase' = "rejected" /\ tarOut' = NoPackageJson /\ UNCHANGED tarIdx
       ELSE IF ~files[RootIndex].ok
       THEN tarPhase' = "rejected" /\ tarOut' = SyntaxError /\ UNCHANGED tarIdx
       ELSE tarPhase' = "loop" /\ tarIdx' = 1 /\ UNCHANGED tarOut
    /\ UNCHANGED <<files, seenPackages, cjsDependencies, esmDependencies,
                   treeVars, detVars, dupVars, regVars, parVars, walkVars>>

(* one iteration of `for (const file of files)` *)
TarLoop ==
    /\ tarPhase = "loop"
    /\ tarIdx <= Len(files)
    /\ LET file == files[tarIdx]
       IN  IF ~(EndsWithPackageJson(file.name) /\ UnderNodeModules(file.name))
           THEN /\ tarIdx' = tarIdx + 1
                /\ UNCHANGED <<seenPackages, cjsDependencies, esmDependencies,
                               tarPhase, tarOut>>
           ELSE IF ~file.ok
           THEN /\ tarPhase' = "rejected"
                /\ tarOut' = SyntaxError
                /\ UNCHANGED <<tarIdx, seenPackages, cjsDependencies, esmDependencies>>
           ELSE IF file.pkgName \in seenPackages
           THEN /\ tarIdx' = tarIdx + 1
                /\ UNCHANGED <<seenPackages, cjsDependencies, esmDependencies,
                               tarPhase, tarOut>>
           ELSE /\ seenPackages' = seenPackages \cup {file.pkgName}
                /\ cjsDependencies' =
                      cjsDependencies + (IF CountsAsCjs(file.moduleType) THEN 1 ELSE 0)
                /\ esmDependencies' =
                      esmDependencies + (IF CountsAsEsm(file.moduleType) THEN 1 ELSE 0)
                /\ tarIdx' = tarIdx + 1
                /\ UNCHANGED <<tarPhase, tarOut>>
    /\ UNCHANGED <<files, treeVars, detVars, dupVars, regVars, parVars, walkVars>>

(* the loop is exhausted: the stats record is returned *)
TarReturn ==
    /\ tarPhase = "loop"
    /\ tarIdx > Len(files)
    /\ tarPhase' = "resolved"
    /\ tarOut' = TarStats(files[RootIndex])
    /\ UNCHANGED <<files, tarIdx, seenPackages, cjsDependencies, esmDependencies,
                   treeVars, detVars, dupVars, regVars, parVars, walkVars>>

TarNext ==
    \/ TarStart
    \/ TarLoop
    \/ TarReturn

TarSpec == TarInit /\ [][TarNext]_vars

--------------------------------------------------------------------------
(* LocalDependencyAnalyzer.analyzeDependencies(root) and walkNodeModules   *)
(* of analyze-dependencies.ts.  A directory is known by its real path; an  *)
(* entry of a directory is a file, a directory or a symbolic link with the *)
(* real path it resolves to.                                               *)

nodeModulesPath == "/app/node_modules"

NoTarget == "ENOENT"     \* fs.realpath rejects: the link is broken

Dirent(name, kind, target) == [name |-> name, kind |-> kind, target |-> target]

FileEntry(name)         == Dirent(name, "file", NoTarget)
DirEntry(name, real)    == Dirent(name, "dir", real)
LinkEntry(name, real)   == Dirent(name, "link", real)

(* what is at a real path: isDir = readdir succeeds; pkg, type = the name  *)
(* in <path>/package.json and the module type it is classified as, Null    *)
(* when there is no parsable package.json                                  *)
At(isDir, pkg, type, entries) ==
    [isDir |-> isDir, pkg |-> pkg, type |-> type, entries |-> entries]

(* realPath.includes('node_modules') *)
RealPathIncludesNodeModules(realPath) ==
    realPath \in {"/app/node_modules", "/app/node_modules/a", "/app/node_modules/b",
                  "/app/node_modules/a/node_modules", "/app/node_modules/b/cli.js"}

(* the entries of /app/node_modules after the directory a *)
TopEntries ==
    { <<>>,
      <<DirEntry("b", "/app/node_modules/b")>>,
      <<LinkEntry("b", "/app/node_modules/b")>>,
      <<DirEntry("b", "/app/node_modules/b"), LinkEntry("b2", "/app/node_modules/b")>>,
      <<LinkEntry("x", "/app/node_modules/b"), LinkEntry("y", "/app/node_modules/b")>>,
      <<LinkEntry("c", "/ws/c")>>,
      <<LinkEntry("gone", NoTarget)>>,
      <<LinkEntry("cli", "/app/node_modules/b/cli.js")>> }

(* the entries of /app/node_modules/a after its package.json *)
InnerEntries ==
    { <<>>,
      <<FileEntry("index.js")>>,
      <<DirEntry("node_modules", "/app/node_modules/a/node_modules")>>,
      <<LinkEntry("up", "/app/node_modules")>>,
      <<LinkEntry("self", "/app/node_modules/a")>> }

ModuleTypes == {"cjs", "esm", "dual", "unknown"}

Dirs(top, inner, typeA, typeC) ==
    [p \in {"/app/node_modules", "/app/node_modules/a", "/app/node_modules/b",
             "/app/node_modules/a/node_modules", "/app/node_modules/b/cli.js", "/ws/c"} |->
        CASE p = "/app/node_modules" ->
                 At(TRUE, Null, Null, <<DirEntry("a", "/app/node_modules/a")>> \o top)
          [] p = "/app/node_modules/a" ->
                 At(TRUE, "a", typeA, <<FileEntry("package.json")>> \o inner)
          [] p = "/app/node_modules/b" ->
                 At(TRUE, "b", "esm", <<FileEntry("package.json"), FileEntry("cli.js")>>)
          [] p = "/app/node_modules/a/node_modules" ->
                 At(TRUE, Null, Null, <<FileEntry(".package-lock.json")>>)
          [] p = "/app/node_modules/b/cli.js" ->
                 At(FALSE, Null, Null, <<>>)
          [] p = "/ws/c" ->
                 At(TRUE, "a", typeC, <<FileEntry("package.json")>>)]

Disk(rootOk, hasNodeModules, dirs) ==
    [rootOk |-> rootOk, directDependencies |-> 2, devDependencies |-> 1,
     hasNodeModules |-> hasNodeModules, dirs |-> dirs]

Disks ==
    { Disk(TRUE, TRUE, Dirs(top, inner, typeA, typeC)) :
        top \in TopEntries, inner \in InnerEntries,
        typeA \in ModuleTypes, typeC \in {"cjs", "esm"} }
    \cup { Disk(FALSE, TRUE, Dirs(<<>>, <<>>, "cjs", "cjs")),
           Disk(TRUE, FALSE, Dirs(<<>>, <<>>, "cjs", "cjs")) }

WalkFrame(dir) == [dir |-> dir, i |-> 1]

WalkError == [kind |-> "error", message |-> "Error analyzing dependencies"]

WalkStats ==
    [kind |-> "stats",
     totalDependencies |-> disk.directDependencies + disk.devDependencies,
     directDependencies |-> disk.directDependencies,
     devDependencies |-> disk.devDependencies,
     cjsDependencies |-> cjsDependencies,
     esmDependencies |-> esmDependencies,
     installSize |-> localInstallSize]

WalkInit ==
    /\ store = <<>>
    /\ TreeIdle
    /\ DetIdle
    /\ DupIdle
    /\ RegIdle
    /\ TarIdle
    /\ ParIdle
    /\ disk \in Disks
    /\ walkStack = <<>>
    /\ followed = <<>>
    /\ localInstallSize = 0
    /\ walkPhase = "idle"
    /\ walkOut = <<>>

WalkTop == walkStack[Len(walkStack)]

Here == disk.dirs[WalkTop.dir]

(* the entry the for loop of the innermost invocation is at *)
AtEntry ==
    /\ walkPhase = "walk"
    /\ Here.isDir
    /\ WalkTop.i <= Len(Here.entries)

ThisEntry == Here.entries[WalkTop.i]

(* the loop of the innermost invocation moves on *)
NextEntry == [walkStack EXCEPT ![Len(walkStack)].i = @ + 1]

(* callbacks.onPackage behind the seenPackages test, for the package.json  *)
(* at realPath                                                             *)
OnPackage(realPath) ==
    LET at == disk.dirs[realPath]
    IN  IF at.pkg = Null \/ at.pkg \in seenPackages
        THEN UNCHANGED <<seenPackages, cjsDependencies, esmDependencies>>
        ELSE /\ seenPackages' = seenPackages \cup {at.pkg}
             /\ cjsDependencies' =
                   cjsDependencies + (IF CountsAsCjs(at.type) THEN 1 ELSE 0)
             /\ esmDependencies' =
                   esmDependencies + (IF CountsAsEsm(at.type) THEN 1 ELSE 0)

(* analyzeDependencies(root) up to the call of walkNodeModules *)
WalkStart ==
    /\ walkPhase = "idle"
    /\ IF ~disk.rootOk
       THEN walkPhase' = "rejected" /\ walkOut' = WalkError /\ UNCHANGED walkStack
       ELSE IF ~disk.hasNodeModules
       THEN walkPhase' = "resolved" /\ walkOut' = WalkStats /\ UNCHANGED walkStack
       ELSE /\ walkPhase' = "walk"
            /\ walkStack' = <<WalkFrame(nodeModulesPath)>>
            /\ UNCHANGED walkOut
    /\ UNCHANGED <<disk, followed, localInstallSize, treeVars, detVars, dupVars,
                   regVars, tarVars, parVars>>

(* entry.isSymbolicLink() *)
WalkSymlink ==
    /\ AtEntry
    /\ ThisEntry.kind = "link"
    /\ IF ThisEntry.target = NoTarget
       THEN /\ walkStack' = NextEntry
            /\ UNCHANGED <<followed, seenPackages, cjsDependencies, esmDependencies>>
       ELSE /\ OnPackage(ThisEntry.target)
            /\ IF RealPathIncludesNodeModules(ThisEntry.target)
               THEN /\ Len(walkStack) < MaxWalk
                    /\ walkStack' = Append(NextEntry, WalkFrame(ThisEntry.target))
                    /\ followed' = Append(followed, ThisEntry.target)
               ELSE /\ walkStack' = NextEntry
                    /\ UNCHANGED followed
    /\ UNCHANGED <<disk, localInstallSize, walkPhase, walkOut, files, tarIdx, tarPhase,
                   tarOut, treeVars, detVars, dupVars, regVars, parVars>>

(* entry.isDirectory() *)
WalkDirectory ==
    /\ AtEntry
    /\ ThisEntry.kind = "dir"
    /\ OnPackage(ThisEntry.target)
    /\ IF ThisEntry.name # "node_modules"
       THEN /\ Len(walkStack) < MaxWalk
            /\ walkStack' = Append(NextEntry, WalkFrame(ThisEntry.target))
       ELSE walkStack' = NextEntry
    /\ UNCHANGED <<disk, followed, localInstallSize, walkPhase, walkOut, files, tarIdx,
                   tarPhase, tarOut, treeVars, detVars, dupVars, regVars, parVars>>

(* any other entry: callbacks.onFile adds the size of the file *)
WalkFile ==
    /\ AtEntry
    /\ ThisEntry.kind = "file"
    /\ localInstallSize' = localInstallSize + 1
    /\ walkStack' = NextEntry
    /\ UNCHANGED <<disk, followed, walkPhase, walkOut, treeVars, detVars, dupVars,
                   regVars, tarVars, parVars>>

(* the for loop is exhausted, or readdir rejected and the catch swallowed  *)
(* it: walkNodeModules resolves; after the outermost one the stats record  *)
(* is returned                                                             *)
WalkReturn ==
    /\ walkPhase = "walk"
    /\ ~Here.isDir \/ WalkTop.i > Len(Here.entries)
    /\ walkStack' = Front(walkStack)
    /\ IF Len(walkStack) = 1
       THEN walkPhase' = "resolved" /\ walkOut' = WalkStats
       ELSE UNCHANGED <<walkPhase, walkOut>>
    /\ UNCHANGED <<disk, followed, localInstallSize, treeVars, detVars, dupVars,
                   regVars, tarVars, parVars>>

WalkNext ==
    \/ WalkStart
    \/ WalkSymlink
    \/ WalkDirectory
    \/ WalkFile
    \/ WalkReturn

WalkSpec == WalkInit /\ [][WalkNext]_vars

--------------------------------------------------------------------------
(* Properties of DependencyTreeBuilder *)

Indexes(list) == 1..Len(list)

RootOk == parsePackageJson(rootPackagePath) # NoPackage

DepthOk(list) ==
    \A i \in Indexes(list) :
        LET n == list[i]
        IN  IF n.path = <<"root">>
            THEN n.depth = 0 /\ n.parent = NoParent
            ELSE /\ \E j \in Indexes(list) : list[j].path = Front(n.path)
                 /\ \A j \in Indexes(list) :
                        list[j].path = Front(n.path) => n.depth = list[j].depth + 1

(* C1: in every node list returned by buildDependencyTree the root node   *)
(* has depth 0 and no parent, and every other node has depth 1 + the      *)
(* depth of the node whose tree path is its own path minus the last       *)
(* segment.                                                                *)
C1_DepthIsParentDepthPlusOne ==
    \A r \in Indexes(returned) : DepthOk(returned[r])

C1_Witness ==
    \E r \in Indexes(returned) : \E i \in Indexes(returned[r]) :
        returned[r][i].depth = 3

(* C3: at every point of a build no two nodes of the builder's node list  *)
(* share the same (packagePath, path) pair.                                *)
C3_NoSharedPair ==
    \A i, j \in Indexes(dependencyNodes) :
        (/\ dependencyNodes[i].packagePath = dependencyNodes[j].packagePath
         /\ dependencyNodes[i].path = dependencyNodes[j].path) => i = j

(* C4: the visited set bounds the recursion, so that the build terminates *)
(* on every finite store, cyclic ones included: processDependencies is     *)
(* never entered for a manifest while an invocation for that same manifest *)
(* is still active.  (Resolution is by name alone, so an invocation nested *)
(* in one for the same manifest meets the same dependencies again, and so  *)
(* on without end.)                                                        *)
C4_RecursionBounded ==
    \A i, j \in Indexes(stack) :
        i < j => stack[i].pkg.path # stack[j].pkg.path

(* C5: every run of buildDependencyTree over the unchanged store returns  *)
(* as many nodes as the first run, on the same builder or on a fresh one.  *)
C5_SameNodeCount ==
    \A r \in Indexes(returned) : Len(returned[r]) = Len(returned[1])

(* C6: with the root manifest absent or unparsable buildDependencyTree    *)
(* fails with MissingRootManifest; it does not return a node list.         *)
C6_NoListWithoutRoot ==
    ~RootOk => returned = <<>>

(* the manifest a declared name resolves to, NoPackage if none is usable *)
Installed(depName) ==
    LET packagePath == findPackageJson(depName)
    IN  IF packagePath = NoPath THEN NoPackage ELSE parsePackageJson(packagePath)

Declared(packageJson) ==
    {packageJson.deps[i].name : i \in Indexes(packageJson.deps)}
    \cup {packageJson.dev[i].name : i \in Indexes(packageJson.dev)}

(* tree paths below the manifest at tree path `path`, `fuel` levels deep *)
RECURSIVE Reach(_, _, _)
Reach(packageJson, path, fuel) ==
    IF fuel = 0 THEN {}
    ELSE UNION { IF Installed(n) = NoPackage THEN {}
                 ELSE {Append(path, n)}
                      \cup Reach(Installed(n), Append(path, n), fuel - 1) :
                 n \in Declared(packageJson) }

PathsOf(list) == {list[i].path : i \in Indexes(list)}

Dropped == {e \in log : e.why \in {"missing", "unparsable"}}

(* C7: a declared dependency whose manifest is missing or unparsable      *)
(* yields no node and no failure; every list the build returns still has   *)
(* every node reachable through the other dependencies.                    *)
C7_SkipAndContinue ==
    /\ \A e \in Dropped : e.path \notin PathsOf(dependencyNodes)
    /\ \A r \in Indexes(returned) :
          returned[r] # <<>> =>
              Reach(parsePackageJson(rootPackagePath), <<"root">>, MaxDepth + 1)
                  \subseteq PathsOf(returned[r])

C7_Witness ==
    /\ Logged("missing", <<"root", "a">>) \in log
    /\ Logged("unparsable", <<"root", "c">>) \in log
    /\ returned # <<>>
    /\ <<"root", "s/x">> \in PathsOf(returned[1])

--------------------------------------------------------------------------
(* Properties of DuplicateDetector *)

GroupNamesOf(groups) == {groups[i].name : i \in Indexes(groups)}

SeverityOk(group) ==
    /\ group.severity \in {"exact", "conflict"}
    /\ group.severity = "exact" <=>
          \A i, j \in Indexes(group.versions) :
              group.versions[i].version = group.versions[j].version

(* C2: detectDuplicates returns a group for a package name iff at least   *)
(* two input nodes carry that name, and the group's severity is 'exact'    *)
(* iff all its nodes have the identical version string, else 'conflict'.   *)
C2_GroupIffTwoOccurrences ==
    detPhase = "done" =>
        /\ \A n \in DetNames :
              n \in GroupNamesOf(detOut) <=> Count(NamesOf(detIn), n) >= 2
        /\ \A g \in Indexes(detOut) : SeverityOk(detOut[g])

(* the same equivalence for the package names other than 'root' *)
ExceptNameRoot_GroupIffTwoOccurrences ==
    detPhase = "done" =>
        /\ \A n \in DetNames \ {"root"} :
              n \in GroupNamesOf(detOut) <=> Count(NamesOf(detIn), n) >= 2
        /\ \A g \in Indexes(detOut) : SeverityOk(detOut[g])

--------------------------------------------------------------------------
(* Properties of analyzeDuplicateDependencies *)

Duplicated == {i \in Indexes(packageVersions) : Len(packageVersions[i].versions) > 1}

LookupFailed(name) == registry[name].kind \in {"not-ok", "neterr"}

(* C8: when the registry lookup for a duplicated name fails, the result   *)
(* still holds that name's group, unmodified and without a suggested fix,  *)
(* and the run does not fail.                                              *)
C8_GroupKeptOnFetchFailure ==
    /\ (\E i \in Duplicated : LookupFailed(packageVersions[i].name))
          => dupPhase # "rejected"
    /\ dupPhase = "resolved" =>
          \A i \in Duplicated :
              LookupFailed(packageVersions[i].name) =>
                  \E g \in Indexes(duplicateDependencies) :
                      /\ duplicateDependencies[g].name = packageVersions[i].name
                      /\ ~duplicateDependencies[g].suggestedFix.has

(* C9: relatedDuplicates, when present, only lists names that have more   *)
(* than one occurrence in the input and never the group's own name.        *)
C9_RelatedAreOtherDuplicates ==
    \A g \in Indexes(duplicateDependencies) :
        LET group == duplicateDependencies[g]
        IN  group.relatedDuplicates.has =>
                \A k \in Indexes(group.relatedDuplicates.entries) :
                    /\ SizeOf(packageVersions, group.relatedDuplicates.entries[k]) > 1
                    /\ group.relatedDuplicates.entries[k] # group.name

(* the semantically highest version among a group's occurrences *)
Highest(versions) ==
    CHOOSE sv \in {Parse(versions[i]) : i \in Indexes(versions)} :
        \A i \in Indexes(versions) : ~Newer(Parse(versions[i]), sv)

(* the published versions that share the major number of sv *)
SameMajor(packageInfo, sv) ==
    {Parse(packageInfo.versions[i].key) : i \in Indexes(packageInfo.versions)}
        \cap {<<sv[1], m, q>> : m \in 0..2, q \in 0..0}

(* C10: whenever a published version has the major number of the group's  *)
(* highest version, the suggested fix is the newest published version of   *)
(* that major, with breakingChanges = false.                               *)
C10_SameMajorPreferred ==
    \A g \in Indexes(duplicateDependencies) :
        LET group   == duplicateDependencies[g]
            current == Highest(group.versions)
            same    == SameMajor(registry[group.name], current)
        IN  same # {} =>
                /\ group.suggestedFix.has
                /\ group.suggestedFix.version = Format(SortDesc(same)[1])
                /\ group.suggestedFix.breakingChanges = FALSE

--------------------------------------------------------------------------
(* Properties of npm-registry *)

SemVers == {<<1, 0, 0>>, <<1, 2, 0>>, <<2, 0, 0>>}

(* semver.intersects(r1, r2) over the versions of the model *)
Intersects(r1, r2) == \E sv \in SemVers : RangeTest(r1, sv) /\ RangeTest(r2, sv)

(* C11: a result of findLatestCompatibleVersion with hasBreakingChanges =  *)
(* true has a major number strictly greater than the current version's,    *)
(* and each peer range it declares is satisfiable against the constraint   *)
(* passed in for the same name.                                            *)
C11_BreakingIsNewerMajor ==
    (regPhase = "latest" /\ regOut.kind = "found" /\ regOut.hasBreakingChanges) =>
        /\ Parse(regOut.version)[1] > Parse(regIn.currentVersion)[1]
        /\ \A i \in Indexes(regIn.peerDependencies.entries) :
              LET passed   == regIn.peerDependencies.entries[i]
                  declared == RangeFor(VersionEntry(regIn.packageInfo,
                                                    regOut.version).peer,
                                       passed.name)
              IN  declared = Null \/ Intersects(passed.range, declared)

(* the registry entries of the versions that are published *)
FoundEntries(versions, packageInfo) ==
    {i \in Indexes(versions) : VersionEntry(packageInfo, versions[i]) # NoEntry}

NameSet(rec) == {rec.entries[i].name : i \in Indexes(rec.entries)}

RECURSIVE SumNames(_, _, _)
SumNames(idx, versions, packageInfo) ==
    IF idx = {} THEN 0
    ELSE LET i == CHOOSE k \in idx : TRUE
             e == VersionEntry(packageInfo, versions[i])
         IN  Cardinality(NameSet(e.deps)) + Cardinality(NameSet(e.peer))
             + SumNames(idx \ {i}, versions, packageInfo)

UnionNames(versions, packageInfo) ==
    UNION { NameSet(VersionEntry(packageInfo, versions[i]).deps)
            \cup NameSet(VersionEntry(packageInfo, versions[i]).peer) :
            i \in FoundEntries(versions, packageInfo) }

(* C12: dependencyCountReduction is the sum, over the versions found in    *)
(* the registry data, of the number of dependency names plus the number of *)
(* peer-dependency names, minus the size of the union of those names; it   *)
(* is never negative.                                                      *)
C12_ImpactIsSumMinusUnion ==
    (regPhase = "impact" /\ ~regOut.threw) =>
        /\ regOut.dependencyCountReduction =
              SumNames(FoundEntries(regIn.versions, regIn.packageInfo),
                       regIn.versions, regIn.packageInfo)
              - Cardinality(UnionNames(regIn.versions, regIn.packageInfo))
        /\ regOut.dependencyCountReduction >= 0

C12_Witness ==
    /\ regPhase = "impact"
    /\ ~regOut.threw
    /\ regOut.dependencyCountReduction >= 2
    /\ \E i \in Indexes(regIn.versions) :
          VersionEntry(regIn.packageInfo, regIn.versions[i]).peer.entries # <<>>

--------------------------------------------------------------------------
(* Properties of the strategies of analyzeDuplicateDependencies *)

HasStrategy(group, type, confidence) ==
    \E k \in Indexes(group.deduplicationStrategies) :
        /\ group.deduplicationStrategies[k].type = type
        /\ group.deduplicationStrategies[k].confidence = confidence

(* C13: for every name with more than one occurrence in the input, the     *)
(* result holds that name's group, with a non-empty strategy list that     *)
(* includes a 'dedupe' strategy of confidence 'high', whatever the         *)
(* registry answered for the name.                                         *)
C13_DedupeAlwaysOffered ==
    dupPhase = "resolved" =>
        \A i \in Duplicated :
            \E g \in Indexes(duplicateDependencies) :
                /\ duplicateDependencies[g].name = packageVersions[i].name
                /\ duplicateDependencies[g].deduplicationStrategies # <<>>
                /\ HasStrategy(duplicateDependencies[g], "dedupe", "high")

(* the part of C13 that is about the groups the run does return *)
ReturnedGroups_DedupeOffered ==
    \A g \in Indexes(duplicateDependencies) :
        HasStrategy(duplicateDependencies[g], "dedupe", "high")

(* the location is below a node_modules directory that is not the root's *)
IsNested(location) ==
    location \in {"node_modules/b/node_modules/a", "node_modules/a/node_modules/b"}

(* C14: a returned group has a 'hoist' strategy (confidence 'medium') iff  *)
(* at least one of its occurrences is at a nested node_modules path; a     *)
(* group whose occurrences are all hoisted already gets none.              *)
C14_HoistIffNested ==
    \A g \in Indexes(duplicateDependencies) :
        LET group == duplicateDependencies[g]
        IN  HasStrategy(group, "hoist", "medium") <=>
                \E k \in Indexes(group.locations) : IsNested(group.locations[k])

(* one direction of C14: a nested occurrence always brings the strategy *)
Nested_ImpliesHoist ==
    \A g \in Indexes(duplicateDependencies) :
        LET group == duplicateDependencies[g]
        IN  (\E k \in Indexes(group.locations) : IsNested(group.locations[k]))
                => HasStrategy(group, "hoist", "medium")

--------------------------------------------------------------------------
(* Properties of DuplicateDetector across input orders *)

Perms(n) == {f \in [1..n -> 1..n] : \A i, j \in 1..n : f[i] = f[j] => i = j}

Reorder(s, f) == [i \in 1..Len(s) |-> s[f[i]]]

(* what C15 compares: per group its name, severity, potentialSavings and   *)
(* the set of its suggestion texts                                         *)
Summary(groups) ==
    { [name |-> groups[g].name, severity |-> groups[g].severity,
       potentialSavings |-> groups[g].potentialSavings,
       suggestions |-> SeqToSet(groups[g].suggestions)] : g \in Indexes(groups) }

(* C15: detectDuplicates is order-independent: on every permutation of the *)
(* input list it returns the same set of groups, each with the same        *)
(* severity, potentialSavings and suggestion texts.                        *)
C15_OrderIndependent ==
    detPhase = "done" =>
        \A f \in Perms(Len(detIn)) :
            Summary(detectDuplicates(Reorder(detIn, f))) = Summary(detOut)

(* the same without the suggestion texts *)
Grouping_OrderIndependent ==
    detPhase = "done" =>
        \A f \in Perms(Len(detIn)) :
            {[x EXCEPT !.suggestions = {}] : x \in Summary(detectDuplicates(Reorder(detIn, f)))}
                = {[x EXCEPT !.suggestions = {}] : x \in Summary(detOut)}

(* the node buildDependencyTree makes for the root manifest *)
IsRootNode(node) == node.path = <<"root">> /\ node.depth = 0

NonRootCount(nodes, name) ==
    Cardinality({i \in Indexes(nodes) : nodes[i].name = name /\ ~IsRootNode(nodes[i])})

(* C16: the root node never appears among the occurrences of a returned    *)
(* group, even when an installed dependency has the root package's name;   *)
(* and no name with two or more non-root occurrences is left without a     *)
(* group.                                                                  *)
C16_RootExcluded ==
    detPhase = "done" =>
        /\ \A g \in Indexes(detOut) : \A k \in Indexes(detOut[g].versions) :
              ~IsRootNode(detOut[g].versions[k])
        /\ \A n \in DetNames :
              NonRootCount(detIn, n) >= 2 => n \in GroupNamesOf(detOut)

--------------------------------------------------------------------------
(* Properties of the stats record *)

DuplicatedNames(nodes) ==
    {nodes[i].name : i \in Indexes(nodes)} \cap
    {n \in {nodes[i].name : i \in Indexes(nodes)} : Count(NamesOf(nodes), n) >= 2}

--------------------------------------------------------------------------
(* Properties of the failure behaviour *)

(* C18: analyzeDuplicateDependencies never throws or rejects, whatever the *)
(* occurrence version strings are and whatever the registry returns; it    *)
(* resolves to a list of groups.                                           *)
C18_NeverRejects ==
    dupPhase # "rejected"

(* the run rejects only on an occurrence string that is no version or on   *)
(* registry data without the entry that is read                            *)
Rejects_OnlyOnBadInput ==
    dupPhase = "rejected" =>
        LET name        == packageVersions[dupIdx].name
            versionInfo == packageVersions[dupIdx].versions
        IN  \/ \E i \in Indexes(versionInfo) : Parse(versionInfo[i].version) = NoVersion
            \/ ~registry[name].hasVersions
            \/ \E k \in Indexes(registry[name].versions) :
                   Format(Parse(registry[name].versions[k].key))
                       # registry[name].versions[k].key

HasRootEntry == \E i \in Indexes(files) : files[i].name = RootManifestName

TarDone == tarPhase \in {"resolved", "rejected"}

(* C19: analyzeDependencies(tarball) rejects with 'No package.json found   *)
(* in the tarball.' exactly when the file list has no entry named          *)
(* '<rootDir>/package.json', and then no stats record is returned.         *)
C19_RejectsIffNoRootEntry ==
    TarDone =>
        /\ (tarPhase = "rejected" /\ tarOut = NoPackageJson) <=> ~HasRootEntry
        /\ ~HasRootEntry => tarOut.kind # "stats"

C19_Witness ==
    /\ tarPhase = "rejected"
    /\ tarOut = NoPackageJson
    /\ \E i \in Indexes(files) : files[i].name = "package/node_modules/a/package.json"
    /\ \E i \in Indexes(files) : files[i].name = "package/README.md"

RootValid == HasRootEntry /\ files[RootIndex].ok

(* the manifests below node_modules, and those of them that are JSON *)
DepManifests ==
    {i \in Indexes(files) :
        EndsWithPackageJson(files[i].name) /\ UnderNodeModules(files[i].name)}

Parsable == {i \in DepManifests : files[i].ok}

(* C20: with the root package.json present and valid, the tarball analysis *)
(* returns a stats record even if a package.json below node_modules is     *)
(* malformed: that descriptor is skipped and the other packages are still  *)
(* counted.                                                                *)
C20_MalformedDescriptorSkipped ==
    /\ RootValid => tarPhase # "rejected"
    /\ (RootValid /\ tarPhase = "resolved") =>
          seenPackages = {files[i].pkgName : i \in Parsable}

(* what does hold: with a valid root the run is rejected only by a         *)
(* malformed descriptor below node_modules, and a run that resolves has    *)
(* counted every package                                                   *)
Rejected_OnlyByMalformedDescriptor ==
    /\ (RootValid /\ tarPhase = "rejected") =>
          \E i \in DepManifests : ~files[i].ok
    /\ (RootValid /\ tarPhase = "resolved") =>
          seenPackages = {files[i].pkgName : i \in Parsable}

--------------------------------------------------------------------------
(* Properties of the nodes of DependencyTreeBuilder *)

IsRoot(node) == node.path = <<"root">>

(* the manifest a node was made from *)
ManifestAt(node) == parsePackageJson(node.packagePath)

(* C23: every non-root node a build returns has the version field of the   *)
(* manifest at its packagePath, so two nodes resolved to the same manifest *)
(* carry the same version.                                                 *)
C23_VersionIsInstalledVersion ==
    \A r \in Indexes(returned) : \A i \in Indexes(returned[r]) :
        ~IsRoot(returned[r][i]) =>
            returned[r][i].version = ManifestAt(returned[r][i]).version

(* the loop of processDependencies is at a dependency whose key is already *)
(* in the visited set                                                      *)
VisitedHit ==
    /\ phase = "walk"
    /\ Top.at = "find"
    /\ Top.i <= Len(Top.all)
    /\ Top.depth <= MaxDepth
    /\ findPackageJson(Top.all[Top.i].name) # NoPath
    /\ <<findPackageJson(Top.all[Top.i].name),
         Append(Top.parentPath, Top.all[Top.i].name)>> \in visitedPackages

(* C24: when the key of a dependency is already in the visited set, a node *)
(* for the occurrence is still appended to the node list; only the descent *)
(* is skipped.                                                             *)
C24_OccurrenceStillRecorded ==
    [][VisitedHit => Len(dependencyNodes') = Len(dependencyNodes) + 1]_vars

(* on a builder whose first build is still running no key is ever met      *)
(* twice: a visited hit needs an earlier build on the same builder         *)
FirstBuild_NoVisitedHit ==
    returned = <<>> => ~VisitedHit

(* the names a manifest declares, dependencies first, in declared order *)
DeclaredOrder(packageJson) ==
    Distinct([i \in Indexes(packageJson.deps) |-> packageJson.deps[i].name]
             \o [i \in Indexes(packageJson.dev) |-> packageJson.dev[i].name])

PosIn(seq, x) == CHOOSE i \in Indexes(seq) : seq[i] = x

Attempted == {e.path : e \in log}

ChildrenOk(list) ==
    \A j \in Indexes(list) :
        LET declared == Declared(ManifestAt(list[j]))
        IN  /\ \A i \in Indexes(list) :
                  (~IsRoot(list[i]) /\ Front(list[i].path) = list[j].path)
                      => list[i].name \in declared
            /\ \A n \in declared :
                  Append(list[j].path, n) \in PathsOf(list) \cup Attempted

(* C25: for every manifest walked, the child names the builder tries to    *)
(* resolve are exactly keys(dependencies) union keys(devDependencies): a   *)
(* name that is only a peer dependency never gives a child node.           *)
C25_ChildrenAreDepsAndDevDeps ==
    \A r \in Indexes(returned) : ChildrenOk(returned[r])

C25_Witness ==
    /\ returned # <<>>
    /\ Len(returned[1]) >= 3
    /\ Installed("c") # NoPackage
    /\ "c" \notin Declared(parsePackageJson(rootPackagePath))
    /\ <<"root", "c">> \notin PathsOf(returned[1])
    /\ <<"root", "a">> \in PathsOf(returned[1])

OrderOk(list) ==
    \A p, i, j \in Indexes(list) :
        (/\ ~IsRoot(list[i]) /\ ~IsRoot(list[j])
         /\ Front(list[i].path) = list[p].path
         /\ Front(list[j].path) = list[p].path
         /\ PosIn(DeclaredOrder(ManifestAt(list[p])), list[i].name)
               < PosIn(DeclaredOrder(ManifestAt(list[p])), list[j].name))
            => i < j

--------------------------------------------------------------------------
(* generateSuggestions: the version proposed for standardization *)

(* the version strings of the model in the order of string comparison *)
VersionStringOrder == <<"1.0.0", "10.0.0", "2.0.0">>

StringRank(v) == CHOOSE i \in 1..Len(VersionStringOrder) : VersionStringOrder[i] = v

TimesIn(nodes, v) == Cardinality({i \in 1..Len(nodes) : nodes[i].version = v})

GroupVersions(nodes) == {nodes[i].version : i \in 1..Len(nodes)}

MaxOccurrences(nodes) ==
    CHOOSE k \in 0..Len(nodes) :
        /\ \A v \in GroupVersions(nodes) : TimesIn(nodes, v) <= k
        /\ (nodes # <<>> => \E v \in GroupVersions(nodes) : TimesIn(nodes, v) = k)

StandardizeOf(suggestions) == SelectSeq(suggestions, LAMBDA t : t.kind = "standardize")

Suggested == detPhase = "suggested"

(* C27: a 'standardize on version V' suggestion is emitted exactly when    *)
(* some version string occurs more than once in the group; V then has the  *)
(* largest occurrence count, and of the versions tied for it V is the      *)
(* lowest version string.                                                  *)
C27_StandardizeOnLowestMostCommon ==
    Suggested =>
        /\ (StandardizeOf(detOut) # <<>>) <=> (MaxOccurrences(detIn) > 1)
        /\ Len(StandardizeOf(detOut)) <= 1
        /\ \A i \in 1..Len(StandardizeOf(detOut)) :
              LET V == StandardizeOf(detOut)[i].version
              IN  /\ TimesIn(detIn, V) = MaxOccurrences(detIn)
                  /\ StandardizeOf(detOut)[i].count = MaxOccurrences(detIn)
                  /\ \A w \in GroupVersions(detIn) :
                        TimesIn(detIn, w) = MaxOccurrences(detIn)
                            => StringRank(V) <= StringRank(w)

(* the part of C27 the code keeps: emitted iff some version repeats, and   *)
(* the proposed version has the largest count                              *)
Standardize_OnAMostCommon ==
    Suggested =>
        /\ (StandardizeOf(detOut) # <<>>) <=> (MaxOccurrences(detIn) > 1)
        /\ \A i \in 1..Len(StandardizeOf(detOut)) :
              TimesIn(detIn, StandardizeOf(detOut)[i].version) = MaxOccurrences(detIn)

--------------------------------------------------------------------------
(* detectDuplicates: when a returned group carries suggestions *)

Detected == detPhase = "done"

DefinedParents(nodes) == {nodes[i].parent : i \in 1..Len(nodes)} \ {NoParent, ""}

SomeVersionRepeats(nodes) == \E v \in GroupVersions(nodes) : TimesIn(nodes, v) > 1

(* C28: every duplicate group returned by detectDuplicates has a defined,  *)
(* non-empty suggestions list, whatever its severity and the parents of    *)
(* its occurrences.                                                        *)
C28_SuggestionsNeverEmpty ==
    Detected => \A i \in 1..Len(detOut) : detOut[i].suggestions # <<>>

(* C28 as the detector keeps it: the suggestions list of a returned group  *)
(* is always a list, and it is non-empty exactly when some version string  *)
(* occurs more than once in the group or its occurrences have more than    *)
(* one distinct parent.                                                    *)
C28_SuggestionsIffRepeatOrParents ==
    Detected =>
        \A i \in 1..Len(detOut) :
            /\ detOut[i].suggestions \in Seq({Standardize(v, k) : v \in DetVersions, k \in 2..(MaxNodes + 1)}
                                            \cup {CheckParents(q) : q \in {<<"app", "a">>, <<"a", "app">>}})
            /\ (detOut[i].suggestions # <<>>)
                  <=> (\/ SomeVersionRepeats(detOut[i].versions)
                       \/ Cardinality(DefinedParents(detOut[i].versions)) > 1)

C28_Witness ==
    /\ Detected
    /\ \E i \in 1..Len(detOut) :
          /\ detOut[i].severity = "conflict"
          /\ detOut[i].suggestions = <<>>
          /\ \E j \in 1..Len(detOut[i].versions) : detOut[i].versions[j].parent = NoParent

--------------------------------------------------------------------------
(* analyzeDuplicateDependencies: a registry that never answers *)

Running == dupPhase = "run"

(* the loop is at `await getPackageInfo(name)` and the registry never      *)
(* answers for that name                                                   *)
AwaitsSilentRegistry ==
    /\ InLoop
    /\ Len(packageVersions[dupIdx].versions) > 1
    /\ registry[packageVersions[dupIdx].name].kind = "pending"

(* C22: analyzeDuplicateDependencies completes even if the registry never  *)
(* answers the lookup for one name: the fetch is bounded by a timeout, the *)
(* timed-out fetch counts as a fetch failure, and the loop goes on to the  *)
(* remaining groups.  So a run waiting on a registry that never answers    *)
(* can take the fetch-failure step.                                        *)
C22_SilentFetchTimesOut == AwaitsSilentRegistry => ENABLED FetchFailed

(* every other unfinished run can take a step: only the wait for a fetch   *)
(* that never settles stops a run                                          *)
Stalls_OnlyOnSilentRegistry ==
    (Running /\ ~AwaitsSilentRegistry) =>
        \/ ENABLED SkipEntry
        \/ ENABLED FetchFailed
        \/ ENABLED DupReturn
        \/ InLoop /\ getPackageInfo(packageVersions[dupIdx].name) # NoInfo

--------------------------------------------------------------------------
(* analyzeDependencies(tarball): the module type counts *)

(* the package names of the manifests under node_modules *)
FoundNames == {files[i].pkgName : i \in Parsable}

(* the manifest that classifies a name: the first one met *)
ClassifiedBy(name) == FirstIndex({i \in Parsable : files[i].pkgName = name})

ClassOf(name) == files[ClassifiedBy(name)].moduleType

--------------------------------------------------------------------------
(* Overlapping buildDependencyTree calls *)

(* what one buildDependencyTree call on a fresh builder, alone, returns    *)
(* for the store: the walk of processDependencies run to its end           *)
RECURSIVE WalkAlone(_, _, _)
WalkAlone(stk, visited, nodes) ==
    IF stk = <<>> THEN nodes
    ELSE LET top  == Last(stk)
             rest == Front(stk)
         IN  IF top.i > Len(top.all) THEN WalkAlone(rest, visited, nodes)
             ELSE LET dep         == top.all[top.i]
                      depPath     == Append(top.parentPath, dep.name)
                      packagePath == findPackageJson(dep.name)
                      key         == <<packagePath, depPath>>
                      depPackage  == parsePackageJson(packagePath)
                      next        == Append(rest, [top EXCEPT !.i = top.i + 1])
                  IN  IF packagePath = NoPath \/ key \in visited
                      THEN WalkAlone(next, visited, nodes)
                      ELSE IF depPackage = NoPackage
                      THEN WalkAlone(next, visited \cup {key}, nodes)
                      ELSE WalkAlone(
                               Append(next, Frame(depPackage, depPath, top.depth + 1)),
                               visited \cup {key},
                               Append(nodes, DepNode(top.pkg, dep, depPath, top.depth,
                                                     packagePath)))

IsolatedBuild ==
    LET rootPackage == parsePackageJson(rootPackagePath)
    IN  IF rootPackage = NoPackage THEN <<>>
        ELSE WalkAlone(<<Frame(rootPackage, <<"root">>, 1)>>, {}, <<RootNode(rootPackage)>>)

(* C30: when two buildDependencyTree calls on one builder are in flight at *)
(* once and interleave at their awaits, each call returns exactly the node *)
(* list a single, isolated build of the same store returns.                *)
C30_OverlappingCallsIsolated ==
    \A c \in Callers :
        calls[c].phase = "returned" => calls[c].result = IsolatedBuild

(* the first build of a fresh builder, run alone, returns that list *)
FirstBuild_IsIsolatedBuild ==
    Len(returned) >= 1 => returned[1] = IsolatedBuild

(* a call that returns before any other call has resumed returns the      *)
(* isolated list: only the sharing of the two fields makes the difference  *)
Overlap_AloneSoFarIsIsolated ==
    \A c \in Callers :
        (calls[c].phase = "returned" /\ \A d \in Callers \ {c} : calls[d].phase = "called")
            => calls[c].result = IsolatedBuild

--------------------------------------------------------------------------
(* Properties of walkNodeModules *)

NoRepeat(seq) == \A i, j \in Indexes(seq) : i < j => seq[i] # seq[j]

WalkDirs == [i \in Indexes(walkStack) |-> walkStack[i].dir]

(* C29: walkNodeModules terminates on every finite directory tree and      *)
(* walks each symlinked directory at most once; a symlink is descended     *)
(* into only if its real path contains node_modules, and a symlink whose   *)
(* real path is one of its own ancestors causes no repeated or unbounded   *)
(* descent.  So no real path is followed twice, and no directory is being  *)
(* walked inside a walk of itself.                                         *)
C29_SymlinkWalkedOnce ==
    /\ NoRepeat(followed)
    /\ NoRepeat(WalkDirs)
    /\ \A i \in Indexes(followed) : RealPathIncludesNodeModules(followed[i])

(* the part of C29 the walk keeps: a symlink is only descended into when   *)
(* its real path contains node_modules, and a directory named node_modules *)
(* is not descended into                                                   *)
Followed_OnlyUnderNodeModules ==
    /\ \A i \in Indexes(followed) : RealPathIncludesNodeModules(followed[i])
    /\ \A i \in Indexes(walkStack) : walkStack[i].dir # "/app/node_modules/a/node_modules"

(* without a symlink into an ancestor and without two links to one target  *)
(* no directory is walked inside itself                                    *)
NoLinks_NoRepeat ==
    (\A p \in DOMAIN disk.dirs : \A k \in Indexes(disk.dirs[p].entries) :
        disk.dirs[p].entries[k].kind # "link")
        => NoRepeat(WalkDirs) /\ followed = <<>>

(* the counts of the local analysis never exceed the names seen *)
Local_CountsWithinSeen ==
    /\ cjsDependencies <= Cardinality(seenPackages)
    /\ esmDependencies <= Cardinality(seenPackages)

====
